---- MODULE Spec2Model ----
(***************************************************************************)
(* A model of a_unet/blocks.py: the template engine (T, Ts), the block     *)
(* combinators (Sequential, Skip, Repeat), the conditioning plugins and    *)
(* the tabular embedding generator.                                        *)
(*                                                                         *)
(* Each component of the library is a group of variables with its own      *)
(* initial condition, actions and specification.  A specification moves    *)
(* one component and leaves the others idle.                               *)
(***************************************************************************)
EXTENDS Integers, Sequences, FiniteSets, TLC

VARIABLES
    \* ---- class T (blocks.py 17-38)
    T_override,   \* T.override
    inner,        \* the Inner object returned by T.__call__, or NoInner
    n_inst,       \* number of calls of Inner.__call__ so far
    inst_req,     \* the (b, kb) of the latest Inner.__call__
    f_count,      \* number of calls of the wrapped constructor t
    f_last,       \* the (args, kwargs) the wrapped constructor was last called with
    \* ---- class Sequential and the class Skip(merge_fn) returns (blocks.py 68-78, 116-124)
    seq_class,    \* "Sequential", or the merge_fn of a Skip class
    seq_blocks,   \* self.blocks, in construction order
    seq_pc,       \* "idle", "loop" (in Sequential.forward), "merge" (back in Skip.forward), "done"
    fwd_x,        \* the x the object's forward was called with
    fwd_args,     \* the *args the object's forward was called with
    seq_x,        \* Sequential.forward's local x
    seq_i,        \* index of the next block of the for loop
    seq_log,      \* what each block was called with, in call order
    chain_out,    \* what Sequential.forward returned
    fwd_out,      \* what the object's forward returned
    \* ---- Repeat and Ts (blocks.py 111-113, 41-43)
    rep_heap,     \* the block objects built so far: object id -> its parameter
    rep_m,        \* the m given to Repeat: a built block (its id) or a template
    rep_times,    \* the times given to Repeat
    rep_result,   \* what Repeat returned: None before the call, a chain, or the factory Ts(Sequential)(*ms)
    rep_chains,   \* the Sequential objects built so far: each the ids of its blocks
    \* ---- ClassifierFreeGuidancePlugin (blocks.py 513-556)
    cfg_pc,       \* "idle", or how the forward call ended: "returned" or "raised"
    cfg_call,     \* the arguments of the forward call
    cfg_fixed,    \* number of evaluations of the fixed_embedding sub-block
    cfg_net,      \* the calls of the base network, in order: x, embedding, kwargs
    cfg_out,      \* what forward returned
    \* ---- TimeConditioningPlugin (blocks.py 559-598)
    tc_pc,        \* "idle", or how the forward call ended: "returned" or "raised"
    tc_call,      \* the arguments of the forward call
    tc_sub,       \* number of evaluations of the sub-blocks embedder and mlp
    tc_net,       \* the calls of the base network, in order: x, features, kwargs
    tc_out,       \* what forward returned
    \* ---- TabularDataEmbeddingGenerator (blocks.py 701-787)
    tab_pc,       \* "new", or how __init__ ended: "built" or "raised"
    tab_args,     \* the arguments __init__ was called with
    tab_self,     \* the fields of the object __init__ set
    tab_error,    \* the exception __init__ raised
    tab_fwd,      \* "none", or how forward ended: "returned" or "raised"
    tab_x,        \* the input forward was called with: rows of column values
    tab_out,      \* what forward returned
    \* ---- stacked plugins (blocks.py 513-698)
    stack_pc,        \* "start", "wrapped", "built", "returned", or "*_raised"
    stack_layers,    \* the plugins of the stack, outermost first
    stack_embedder,  \* the generator TabularDataConditioningPlugin constructed
    stack_build_kw,  \* the keywords the outermost constructor was called with
    stack_base_kw,   \* the keywords the base constructor received
    stack_call,      \* the keywords of the forward call
    stack_result,    \* the base network's calls and the events of the forward call
    stack_error,     \* the exception raised
    stack_out,       \* what the forward call returned
    \* ---- Conv, ConvTranspose, Downsample, Upsample (blocks.py 132-170)
    conv_pc,      \* "idle", "built", "returned" or "raised"
    conv_call,    \* the constructor called and its arguments
    conv_module,  \* the module it built
    conv_error,   \* the exception raised
    conv_in,      \* the length of the input's spatial axes
    conv_out,     \* the length of the output's spatial axes
    \* ---- Select (blocks.py 81-96)
    sel_pc,       \* "idle", "built" or "returned"
    sel_fn,       \* the args_fn given to Select
    sel_init,     \* the arguments the Select block was constructed with
    sel_block,    \* the arguments block_t was constructed with
    sel_fwd,      \* the arguments forward was called with
    sel_calls,    \* the calls the wrapped block received
    sel_out       \* what forward returned

varsT == <<T_override, inner, n_inst, inst_req, f_count, f_last>>
varsSeq == <<seq_class, seq_blocks, seq_pc, fwd_x, fwd_args, seq_x, seq_i,
             seq_log, chain_out, fwd_out>>

varsRep == <<rep_heap, rep_m, rep_times, rep_result, rep_chains>>

varsCFG == <<cfg_pc, cfg_call, cfg_fixed, cfg_net, cfg_out>>

varsTC == <<tc_pc, tc_call, tc_sub, tc_net, tc_out>>

varsTab == <<tab_pc, tab_args, tab_self, tab_error, tab_fwd, tab_x, tab_out>>

varsStack == <<stack_pc, stack_layers, stack_embedder, stack_build_kw, stack_base_kw,
               stack_call, stack_result, stack_error, stack_out>>

varsConv == <<conv_pc, conv_call, conv_module, conv_error, conv_in, conv_out>>

varsSel == <<sel_pc, sel_fn, sel_init, sel_block, sel_fwd, sel_calls, sel_out>>

vars == <<varsT, varsSeq, varsRep, varsCFG, varsTC, varsTab, varsStack, varsConv, varsSel>>

(***************************************************************************)
(* Values shared by the components.                                        *)
(***************************************************************************)

\* Python's None.
None == [none |-> TRUE]

\* exists(val): val is not None  (blocks.py 46-47)
exists(val) == val # None

\* Sequences over S of length at most n.
SeqUpTo(S, n) == UNION {[1..k -> S] : k \in 0..n}

\* Keyword dictionaries: functions from a set of keys to values.
Dicts(K, V) == UNION {[D -> V] : D \in SUBSET K}

\* {**d1, **d2}: the keys of both, d2 winning on a collision.
DictMerge(d1, d2) ==
    [k \in DOMAIN d1 \cup DOMAIN d2 |-> IF k \in DOMAIN d2 THEN d2[k] ELSE d1[k]]

(***************************************************************************)
(* class T: the template engine.                                           *)
(***************************************************************************)

\* Longest positional argument list and most instantiations explored.
MaxArgs == 1
MaxInst == 2

\* Opaque constructor arguments and the keyword names they are passed under.
ArgVals == {"u", "v"}
ArgKeys == {"k1", "k2"}

ArgTuples == SeqUpTo(ArgVals, MaxArgs)
ArgDicts == Dicts(ArgKeys, ArgVals)

NoInner == [made |-> FALSE]
NoCall == [made |-> FALSE]

\* T.__call__(*a, **ka): builds Inner, whose closure holds a and ka;
\* Inner.__init__ sets self.args = a and then updates self.__dict__ with ka.
T_call(a, ka) ==
    /\ ~inner.made
    /\ inner' = [made |-> TRUE, a |-> a, ka |-> ka,
                 dict |-> DictMerge([k \in {"args"} |-> a], ka)]
    /\ UNCHANGED <<T_override, n_inst, inst_req, f_count, f_last>>

\* The positional arguments Inner.__call__ hands to t.
CallArgsSwapped(override, a, b) == IF override THEN b \o a ELSE a \o b
CallArgs(override, a, b) == IF override THEN a \o b ELSE b \o a

\* The keyword arguments Inner.__call__ hands to t.
CallKwargsSwapped(override, ka, kb) ==
    IF override THEN DictMerge(kb, ka) ELSE DictMerge(ka, kb)
CallKwargs(override, ka, kb) ==
    IF override THEN DictMerge(ka, kb) ELSE DictMerge(kb, ka)

\* Inner.__call__(*b, **kb): one call of t with the merged arguments.
Inner_call(b, kb) ==
    /\ inner.made
    /\ n_inst < MaxInst
    /\ n_inst' = n_inst + 1
    /\ inst_req' = [made |-> TRUE, b |-> b, kb |-> kb]
    /\ f_count' = f_count + 1
    /\ f_last' = [made |-> TRUE,
                  args |-> CallArgs(T_override, inner.a, b),
                  kwargs |-> CallKwargs(T_override, inner.ka, kb)]
    /\ UNCHANGED <<T_override, inner>>

\* T.__init__(t, override)
InitT ==
    /\ T_override \in BOOLEAN
    /\ inner = NoInner
    /\ n_inst = 0
    /\ inst_req = NoCall
    /\ f_count = 0
    /\ f_last = NoCall

IdleT ==
    /\ T_override = TRUE
    /\ inner = NoInner
    /\ n_inst = 0
    /\ inst_req = NoCall
    /\ f_count = 0
    /\ f_last = NoCall


(***************************************************************************)
(* class Sequential, and Skip(merge_fn) which subclasses it.               *)
(*                                                                         *)
(* A tensor is an integer here; a block is one of a few leaf blocks whose  *)
(* results tell apart the order of the blocks, the signal they were given  *)
(* and the auxiliary arguments they were given.                            *)
(***************************************************************************)

\* Most blocks of a chain, most auxiliary arguments, largest input value.
MaxBlocks == 3
MaxAux == 2
MaxX == 2

BlockKinds == {"inc", "double", "addaux", "zero"}
MergeFns == {"add", "sub"}

RECURSIVE SumSeq(_)
SumSeq(s) == IF s = <<>> THEN 0 ELSE Head(s) + SumSeq(Tail(s))

\* Weighted sum: tells apart the order of the entries.
RECURSIVE WSum(_, _)
WSum(s, w) == IF s = <<>> THEN 0 ELSE w * Head(s) + WSum(Tail(s), w + 1)

\* block(x, *args) for a leaf block.
BlockApply(kind, x, args) ==
    CASE kind = "inc" -> x + 1
      [] kind = "double" -> 2 * x
      [] kind = "addaux" -> x + WSum(args, 1) + Len(args)
      [] kind = "zero" -> 0 * x

\* merge_fn(x, y): torch.add, the default, and torch.sub, whose arguments
\* do not commute.
MergeFn(m, x, y) ==
    CASE m = "add" -> x + y
      [] m = "sub" -> x - y

\* A call of forward(x, *args) on the object: Skip.forward enters
\* super().forward with the same x and args.
forward_call(x, args) ==
    /\ seq_pc \in {"idle", "done"}
    /\ seq_pc' = "loop"
    /\ fwd_x' = x
    /\ fwd_args' = args
    /\ seq_x' = x
    /\ seq_i' = 1
    /\ seq_log' = <<>>
    /\ chain_out' = 0
    /\ fwd_out' = 0
    /\ UNCHANGED <<seq_class, seq_blocks>>

\* What the loop body hands to the block.
BlockCallDropsAux(x, args) == [x |-> x, args |-> IF args = <<>> THEN args ELSE Tail(args)]
BlockCall(x, args) == [x |-> x, args |-> args]

\* One iteration of `for block in self.blocks: x = block(x, *args)`.
Sequential_forward_step ==
    /\ seq_pc = "loop"
    /\ seq_i <= Len(seq_blocks)
    /\ LET call == BlockCall(seq_x, fwd_args)
       IN /\ seq_log' = Append(seq_log, call)
          /\ seq_x' = BlockApply(seq_blocks[seq_i], call.x, call.args)
    /\ seq_i' = seq_i + 1
    /\ UNCHANGED <<seq_class, seq_blocks, seq_pc, fwd_x, fwd_args, chain_out, fwd_out>>

\* `return x` of Sequential.forward: to the caller, or back into Skip.forward.
Sequential_forward_return ==
    /\ seq_pc = "loop"
    /\ seq_i > Len(seq_blocks)
    /\ chain_out' = seq_x
    /\ IF seq_class = "Sequential"
       THEN seq_pc' = "done" /\ fwd_out' = seq_x
       ELSE seq_pc' = "merge" /\ fwd_out' = fwd_out
    /\ UNCHANGED <<seq_class, seq_blocks, fwd_x, fwd_args, seq_x, seq_i, seq_log>>

\* The two values Skip.forward hands to merge_fn.
SkipMergeIntermediate(m, x, y, mid) == MergeFn(m, mid, y)
SkipMerge(m, x, y, mid) == MergeFn(m, x, y)

\* `return merge_fn(x, super().forward(x, *args))` of Skip.forward.
Skip_forward_return ==
    /\ seq_pc = "merge"
    /\ seq_pc' = "done"
    /\ fwd_out' = SkipMerge(seq_class, fwd_x, chain_out,
                            IF seq_log = <<>> THEN fwd_x ELSE seq_log[Len(seq_log)].x)
    /\ UNCHANGED <<seq_class, seq_blocks, fwd_x, fwd_args, seq_x, seq_i, seq_log, chain_out>>

\* Sequential(*blocks) or Skip(merge_fn)(*blocks)
InitSeq ==
    /\ seq_class \in {"Sequential"} \cup MergeFns
    /\ seq_blocks \in SeqUpTo(BlockKinds, MaxBlocks)
    /\ seq_pc = "idle"
    /\ fwd_x = 0 /\ fwd_args = <<>>
    /\ seq_x = 0 /\ seq_i = 1 /\ seq_log = <<>>
    /\ chain_out = 0 /\ fwd_out = 0

IdleSeq ==
    /\ seq_class = "Sequential"
    /\ seq_blocks = <<>>
    /\ seq_pc = "idle"
    /\ fwd_x = 0 /\ fwd_args = <<>>
    /\ seq_x = 0 /\ seq_i = 1 /\ seq_log = <<>>
    /\ chain_out = 0 /\ fwd_out = 0


(***************************************************************************)
(* Repeat(m, times), and Ts, which it uses for a template.                 *)
(*                                                                         *)
(* Block objects live in a heap, identified by their index; a block's      *)
(* parameters are one value.  Calling a template builds a new object.      *)
(***************************************************************************)

\* Largest times, and most instantiations of the factory explored.
MaxTimes == 3
MaxChains == 2

ParamVals == {0, 1}
InitialParam == 0

\* (m,) * times
Tuple(m, times) == [i \in 1..times |-> m]

\* [tp() for tp in types]: every template call builds a new object; the ids
\* of the objects built when the heap holds `base` objects.
NewBlocksShared(base, types) == [i \in 1..Len(types) |-> base + 1]
NewBlocks(base, types) == [i \in 1..Len(types) |-> base + i]

\* Repeat(m, times)
Repeat(times) ==
    /\ rep_result = None
    /\ rep_times' = times
    /\ LET ms == Tuple(rep_m, times)
       IN IF rep_m.isinstance
          THEN \* Sequential(*ms)
               /\ rep_result' = [kind |-> "chain", blocks |-> [i \in 1..times |-> ms[i].id]]
               /\ rep_chains' = <<[i \in 1..times |-> ms[i].id]>>
          ELSE \* Ts(Sequential)(*ms)
               /\ rep_result' = [kind |-> "factory", types |-> ms]
               /\ rep_chains' = rep_chains
    /\ UNCHANGED <<rep_heap, rep_m>>

\* A call of the factory Ts returned: lambda: t(*[tp() for tp in types])
Ts_instantiate ==
    /\ rep_result # None
    /\ rep_result.kind = "factory"
    /\ Len(rep_chains) < MaxChains
    /\ LET n == Len(rep_result.types)
       IN /\ rep_heap' = rep_heap \o [i \in 1..n |-> InitialParam]
          /\ rep_chains' = Append(rep_chains, NewBlocks(Len(rep_heap), rep_result.types))
    /\ UNCHANGED <<rep_m, rep_times, rep_result>>

\* A parameter of one block object is changed (by a training step).
set_param(id, v) ==
    /\ id \in DOMAIN rep_heap
    /\ rep_heap[id] # v
    /\ rep_heap' = [rep_heap EXCEPT ![id] = v]
    /\ UNCHANGED <<rep_m, rep_times, rep_result, rep_chains>>

\* m is a built block (object 1 of the heap) or a template.
InitRep ==
    /\ \/ rep_m = [isinstance |-> TRUE, id |-> 1] /\ rep_heap = <<InitialParam>>
       \/ rep_m = [isinstance |-> FALSE, id |-> 0] /\ rep_heap = <<>>
    /\ rep_times = 0
    /\ rep_result = None
    /\ rep_chains = <<>>

IdleRep ==
    /\ rep_m = [isinstance |-> FALSE, id |-> 0] /\ rep_heap = <<>>
    /\ rep_times = 0
    /\ rep_result = None
    /\ rep_chains = <<>>


(***************************************************************************)
(* ClassifierFreeGuidancePlugin(net_t, embedding_max_length).              *)
(*                                                                         *)
(* An embedding is a tensor of shape (batch, length): one value per token, *)
(* the feature axis folded into it.  x is one value.  The base network     *)
(* records its calls and returns one value per batch item that depends on  *)
(* everything it was given.  embedding_scale is an integer and             *)
(* embedding_mask_proba is ProbaNum / ProbaDen.                            *)
(***************************************************************************)

\* Largest batch, and the denominator of the mask probabilities explored.
MaxBatch == 2
ProbaDen == 2

\* The embedding_max_length the plugin is built with.
EmbeddingMaxLength == 2

EmbVals == {1, 2}
Scales == {0, 1, 2}
XVals == {0, 1}
CfgKwargs == Dicts({"features"}, {5})

Tensor(data) == [data |-> data]

Embeddings ==
    {Tensor(d) : d \in UNION {[1..b -> [1..n -> EmbVals]] :
                              b \in 1..MaxBatch, n \in 1..EmbeddingMaxLength + 1}}

\* Row p of the learned table of FixedEmbedding.
FixedWeight(p) == 0 - p

\* FixedEmbedding.forward(x): the first `length` rows of the table, repeated
\* over the batch; None stands for the failed assertion length <= max_length.
FixedEmbedding(max_length, x) ==
    LET batch_size == Len(x.data)
        length == Len(x.data[1])
    IN IF length <= max_length
       THEN Tensor([i \in 1..batch_size |-> [p \in 1..length |-> FixedWeight(p)]])
       ELSE None

\* rand_bool(shape=(b, 1, 1), proba): the masks it can return.
rand_boolAlwaysDraws(b, num) == [1..b -> BOOLEAN]
rand_bool(b, num) ==
    IF num = ProbaDen THEN {[i \in 1..b |-> TRUE]}
    ELSE IF num = 0 THEN {[i \in 1..b |-> FALSE]}
    ELSE [1..b -> BOOLEAN]

\* torch.where(batch_mask, embedding_mask, embedding), batch_mask of shape (b, 1, 1).
where(batch_mask, embedding_mask, embedding) ==
    Tensor([i \in 1..Len(embedding.data) |->
                IF batch_mask[i] THEN embedding_mask.data[i] ELSE embedding.data[i]])

\* net(x, embedding=embedding, **kwargs): the call, and what the base network returns.
NetCall(x, embedding, kwargs) == [x |-> x, embedding |-> embedding, kwargs |-> kwargs]

NetOut(call) ==
    [i \in 1..Len(call.embedding.data) |->
        call.x + WSum(call.embedding.data[i], 1)
               + (IF "features" \in DOMAIN call.kwargs THEN call.kwargs.features ELSE 0)]

\* The base network calls of forward, given the (possibly masked) embedding.
CFG_netCallsAlwaysTwice(x, embedding, embedding_mask, embedding_scale, kwargs) ==
    <<NetCall(x, embedding, kwargs), NetCall(x, embedding_mask, kwargs)>>
CFG_netCalls(x, embedding, embedding_mask, embedding_scale, kwargs) ==
    IF embedding_scale # 1
    THEN <<NetCall(x, embedding, kwargs), NetCall(x, embedding_mask, kwargs)>>
    ELSE <<NetCall(x, embedding, kwargs)>>

\* What forward returns, given the results of its base network calls.
CFG_return(outs, embedding_scale) ==
    IF embedding_scale # 1
    THEN LET out == outs[1]
             out_masked == outs[2]
         IN [i \in 1..Len(out) |-> out_masked[i] + (out[i] - out_masked[i]) * embedding_scale]
    ELSE outs[1]

\* Net.forward(x, embedding, embedding_scale, embedding_mask_proba, **kwargs)
CFG_forward(x, embedding, embedding_scale, proba, kwargs) ==
    /\ cfg_pc = "idle"
    /\ cfg_call' = [x |-> x, embedding |-> embedding, embedding_scale |-> embedding_scale,
                    embedding_mask_proba |-> proba, kwargs |-> kwargs]
    /\ IF ~exists(embedding)
       THEN \* assert exists(embedding), msg
            cfg_pc' = "raised" /\ cfg_fixed' = 0 /\ cfg_net' = <<>> /\ cfg_out' = None
       ELSE LET b == Len(embedding.data)
                embedding_mask == FixedEmbedding(EmbeddingMaxLength, embedding)
            IN IF ~exists(embedding_mask)
               THEN cfg_pc' = "raised" /\ cfg_fixed' = 1 /\ cfg_net' = <<>> /\ cfg_out' = None
               ELSE \E batch_mask \in (IF proba > 0 THEN rand_bool(b, proba)
                                       ELSE {[i \in 1..b |-> FALSE]}) :
                    LET masked == IF proba > 0
                                  THEN where(batch_mask, embedding_mask, embedding)
                                  ELSE embedding
                        calls == CFG_netCalls(x, masked, embedding_mask, embedding_scale, kwargs)
                    IN /\ cfg_pc' = "returned"
                       /\ cfg_fixed' = 1
                       /\ cfg_net' = calls
                       /\ cfg_out' = CFG_return([k \in 1..Len(calls) |-> NetOut(calls[k])],
                                                embedding_scale)

\* Net(embedding_features, **kwargs): fixed_embedding and net are built.
InitCFG ==
    /\ cfg_pc = "idle"
    /\ cfg_call = None
    /\ cfg_fixed = 0
    /\ cfg_net = <<>>
    /\ cfg_out = None

IdleCFG == InitCFG

(***************************************************************************)
(* TimeConditioningPlugin(net_t, num_layers).                              *)
(*                                                                         *)
(* time is a tensor of shape (batch) or (batch, tokens); features is a     *)
(* tensor of shape (batch, modulation_features).  The learned layers       *)
(* (NumberEmbedder, Linear) and GELU are fixed functions of integers that  *)
(* are not the identity and mix the feature axis as the layers do.         *)
(***************************************************************************)

\* The token counts of the time arrays explored.
TokenCounts == {1, 2}

\* The modulation_features the plugin is built with, and num_layers.
ModulationFeatures == 2
NumLayers == 2

TimeVals == {0, 1}
FeatVals == {0, 1}
TcKwargs == Dicts({"embedding"}, {7})

NdTensor(ndim, data) == [ndim |-> ndim, values |-> data]

Times(b) ==
    {NdTensor(1, d) : d \in [1..b -> TimeVals]}
        \cup {NdTensor(2, d) : d \in UNION {[1..b -> [1..n -> TimeVals]] : n \in TokenCounts}}

Features(b) == {NdTensor(2, d) : d \in [1..b -> [1..ModulationFeatures -> FeatVals]]}

\* A vector as a sequence whose entries are computed once.
Vec(f) == f \o <<>>

\* F.gelu, elementwise on a vector.
gelu(v) == Vec([d \in DOMAIN v |-> 2 * v[d] + 1])

\* nn.Linear(modulation_features, modulation_features) on a vector.
Linear(v) == LET total == SumSeq(v) IN Vec([d \in DOMAIN v |-> total + d * v[d]])

\* NumberEmbedder.to_embedding for one number: a vector of `features` entries.
to_embedding(features, t) == Vec([d \in 1..features |-> 3 * t + d])

\* NumberEmbedder.forward(x): every number of x embedded, the shape of x
\* kept, a feature axis appended.
NumberEmbedder(features, x) ==
    IF x.ndim = 1
    THEN NdTensor(2, [i \in DOMAIN x.values |-> to_embedding(features, x.values[i])])
    ELSE NdTensor(3, [i \in DOMAIN x.values |->
                        [j \in DOMAIN x.values[i] |-> to_embedding(features, x.values[i][j])]])

\* mlp = Repeat(nn.Sequential(nn.Linear, nn.GELU()), times=num_layers): the
\* one built layer, applied num_layers times.
RECURSIVE mlp(_, _)
mlp(times, v) == IF times = 0 THEN v ELSE mlp(times - 1, gelu(Linear(v)))

\* F.gelu(t): elementwise, the shape of t kept.
gelu_tensor(t) ==
    IF t.ndim = 2
    THEN NdTensor(2, Vec([i \in DOMAIN t.values |-> gelu(t.values[i])]))
    ELSE NdTensor(3, Vec([i \in DOMAIN t.values |->
                            Vec([j \in DOMAIN t.values[i] |-> gelu(t.values[i][j])])]))

\* mlp(t): the layers act on the last axis, the shape of t kept.
mlp_tensor(t) ==
    IF t.ndim = 2
    THEN NdTensor(2, Vec([i \in DOMAIN t.values |-> mlp(NumLayers, t.values[i])]))
    ELSE NdTensor(3, Vec([i \in DOMAIN t.values |->
                            Vec([j \in DOMAIN t.values[i] |-> mlp(NumLayers, t.values[i][j])])]))

RECURSIVE VecSum(_, _)
VecSum(vs, n) ==
    IF vs = <<>> THEN [d \in 1..n |-> 0]
    ELSE LET rest == VecSum(Tail(vs), n) IN Vec([d \in 1..n |-> Head(vs)[d] + rest[d]])

\* reduce(time_features, "b n d -> b d", "sum")
reduce_sum(t) ==
    NdTensor(2, [i \in DOMAIN t.values |-> VecSum(t.values[i], ModulationFeatures)])

\* time_features of forward.
TimeFeaturesNoReduce(time) ==
    LET embedded == gelu_tensor(NumberEmbedder(ModulationFeatures, time))
        out == mlp_tensor(embedded)
    IN IF out.ndim = 3 THEN NdTensor(2, [i \in DOMAIN out.values |-> out.values[i][1]]) ELSE out
TimeFeatures(time) ==
    LET embedded == gelu_tensor(NumberEmbedder(ModulationFeatures, time))
        out == mlp_tensor(embedded)
    IN IF out.ndim = 3 THEN reduce_sum(out) ELSE out

\* features + time_features if exists(features) else time_features
MergeFeaturesOverwrites(features, time_features) == time_features
MergeFeatures(features, time_features) ==
    IF exists(features)
    THEN NdTensor(2, [i \in DOMAIN features.values |->
                        [d \in DOMAIN features.values[i] |->
                            features.values[i][d] + time_features.values[i][d]]])
    ELSE time_features

\* What the base network returns for net(x, features=features, **kwargs).
TcNetOut(call) ==
    [i \in DOMAIN call.features.values |->
        call.x + WSum(call.features.values[i], 1)
               + (IF "embedding" \in DOMAIN call.kwargs THEN call.kwargs.embedding ELSE 0)]

\* Net.forward(x, time, features, **kwargs)
Time_forward(x, time, features, kwargs) ==
    /\ tc_pc = "idle"
    /\ tc_call' = [x |-> x, time |-> time, features |-> features, kwargs |-> kwargs]
    /\ IF ~exists(time)
       THEN \* assert exists(time), msg
            /\ tc_pc' = "raised"
            /\ tc_sub' = [embedder |-> 0, mlp |-> 0]
            /\ tc_net' = <<>>
            /\ tc_out' = None
       ELSE LET call == [x |-> x,
                         features |-> MergeFeatures(features, TimeFeatures(time)),
                         kwargs |-> kwargs]
            IN /\ tc_pc' = "returned"
               /\ tc_sub' = [embedder |-> 1, mlp |-> 1]
               /\ tc_net' = <<call>>
               /\ tc_out' = TcNetOut(call)

\* Net(modulation_features, **kwargs): embedder, mlp and net are built.
InitTC ==
    /\ tc_pc = "idle"
    /\ tc_call = None
    /\ tc_sub = [embedder |-> 0, mlp |-> 0]
    /\ tc_net = <<>>
    /\ tc_out = None

IdleTC == InitTC

(***************************************************************************)
(* TabularDataEmbeddingGenerator.__init__.                                 *)
(*                                                                         *)
(* cat_idxs holds Python's positions, counted from 0; the sequences of the *)
(* model are counted from 1.  The group weights explored are multiples of  *)
(* every embedding width explored, so that weight / width is exact.        *)
(***************************************************************************)

\* Most raw columns explored.
MaxCols == 3

GroupCounts == {1, 2}
GroupWeights == {6, 12}
EmbWidths == {1, 3}
CatCards == {5}

\* The names the module binds by its import statements (blocks.py 1-8).
ImportedNames ==
    {"pi", "Any", "Callable", "Optional", "Sequence", "Type", "TypeVar", "Union", "List",
     "torch", "F", "pack", "rearrange", "reduce", "repeat", "unpack",
     "Tensor", "einsum", "nn", "TypeGuard"}

\* Whether a global name of the module can be read; reading another raises NameError.
NameDefined(name) == name \in ImportedNames

Range(s) == {s[k] : k \in DOMAIN s}

\* self.continuous_idx: ones, with the positions of cat_idxs set to 0.
continuous_idx(input_dim, cat_idxs) ==
    [i \in 1..input_dim |-> (i - 1) \notin Range(cat_idxs)]

\* zip(cat_dims, cat_emb_dims): one nn.Embedding(cat_dim, emb_dim) each.
Embeddings_zip(cat_dims, cat_emb_dims) ==
    LET n == IF Len(cat_dims) < Len(cat_emb_dims) THEN Len(cat_dims) ELSE Len(cat_emb_dims)
    IN [k \in 1..n |-> [cat_dim |-> cat_dims[k], emb_dim |-> cat_emb_dims[k]]]

\* The inner loop over init_feat_idx for one group: the columns written from
\* column init_feat_idx on, cat_feat_counter categorical columns seen so far.
RECURSIVE ExpandRow(_, _, _, _, _)
ExpandRow(row, cont, cat_emb_dims, init_feat_idx, cat_feat_counter) ==
    IF init_feat_idx > Len(row) THEN <<>>
    ELSE IF cont[init_feat_idx]
         THEN <<row[init_feat_idx]>>
                \o ExpandRow(row, cont, cat_emb_dims, init_feat_idx + 1, cat_feat_counter)
         ELSE LET n_embeddings == cat_emb_dims[cat_feat_counter + 1]
              IN [k \in 1..n_embeddings |-> row[init_feat_idx] \div n_embeddings]
                    \o ExpandRow(row, cont, cat_emb_dims, init_feat_idx + 1,
                                 cat_feat_counter + 1)

\* What __init__ does: the fields it sets, or the exception it raises.
TabInit(input_dim, cat_dims, cat_idxs, cat_emb_dims, group_matrix) ==
    IF cat_dims = <<>> /\ cat_idxs = <<>>
    THEN [raised |-> None,
          self |-> [skip_embedding |-> TRUE,
                    post_embed_dim |-> input_dim,
                    embedding_group_matrix |-> group_matrix]]
    ELSE IF ~NameDefined("np")
         THEN \* int(input_dim + np.sum(cat_emb_dims) - len(cat_emb_dims))
              [raised |-> [error |-> "NameError"], self |-> None]
         ELSE LET cont == continuous_idx(input_dim, cat_idxs)
              IN [raised |-> None,
                  self |-> [skip_embedding |-> FALSE,
                            post_embed_dim |->
                                input_dim + SumSeq(cat_emb_dims) - Len(cat_emb_dims),
                            embeddings |-> Embeddings_zip(cat_dims, cat_emb_dims),
                            continuous_idx |-> cont,
                            embedding_group_matrix |->
                                [g \in DOMAIN group_matrix |->
                                    ExpandRow(group_matrix[g], cont, cat_emb_dims, 1, 0)]]]

\* TabularDataEmbeddingGenerator(input_dim, cat_dims, cat_idxs, cat_emb_dims, group_matrix)
TabularDataEmbeddingGenerator_init(input_dim, cat_dims, cat_idxs, cat_emb_dims, group_matrix) ==
    /\ tab_pc = "new"
    /\ tab_args' = [input_dim |-> input_dim, cat_dims |-> cat_dims, cat_idxs |-> cat_idxs,
                    cat_emb_dims |-> cat_emb_dims, group_matrix |-> group_matrix]
    /\ LET r == TabInit(input_dim, cat_dims, cat_idxs, cat_emb_dims, group_matrix)
       IN /\ tab_pc' = IF exists(r.raised) THEN "raised" ELSE "built"
          /\ tab_self' = r.self
          /\ tab_error' = r.raised
    /\ UNCHANGED <<tab_fwd, tab_x, tab_out>>

\* x[:, feat_init_idx].float().view(-1, 1): the raw value as one column.
RawColumn(v) == <<[raw |-> v]>>

\* self.embeddings[k](x[:, feat_init_idx].long()): row v of the k-th table
\* (k counted from 0), emb_dim values.
Lookup(self, k, v) ==
    [j \in 1..self.embeddings[k + 1].emb_dim |-> [table |-> k, index |-> v, dim |-> j]]

\* The loop of forward over one row: the columns appended from column
\* feat_init_idx on, cat_feat_counter categorical columns seen so far.
RECURSIVE ForwardCols(_, _, _, _)
ForwardCols(self, row, feat_init_idx, cat_feat_counter) ==
    IF feat_init_idx > Len(self.continuous_idx) THEN <<>>
    ELSE IF self.continuous_idx[feat_init_idx]
         THEN RawColumn(row[feat_init_idx])
                \o ForwardCols(self, row, feat_init_idx + 1, cat_feat_counter)
         ELSE Lookup(self, cat_feat_counter, row[feat_init_idx])
                \o ForwardCols(self, row, feat_init_idx + 1, cat_feat_counter + 1)

\* The number of categorical columns among the first n columns.
CatBefore(self, n) == Cardinality({i \in 1..n : ~self.continuous_idx[i]})

\* What forward does: the output, or the exception it raises.
TabForward(self, x) ==
    IF self.skip_embedding THEN [raised |-> None, out |-> x]
    ELSE LET n == Len(self.continuous_idx)
             cols == Len(x[1])
         IN IF n > cols
            THEN \* x[:, feat_init_idx] past the last column
                 [raised |-> [error |-> "IndexError"], out |-> None]
            ELSE IF \E r \in DOMAIN x, i \in 1..n :
                        /\ ~self.continuous_idx[i]
                        /\ x[r][i] >= self.embeddings[CatBefore(self, i)].cat_dim
            THEN \* nn.Embedding given an index outside its table
                 [raised |-> [error |-> "IndexError"], out |-> None]
            ELSE [raised |-> None,
                  out |-> [r \in DOMAIN x |-> ForwardCols(self, x[r], 1, 0)]]

\* generator(x) on a constructed generator
TabularDataEmbeddingGenerator_forward(x) ==
    /\ tab_pc = "built"
    /\ tab_fwd = "none"
    /\ tab_x' = x
    /\ LET r == TabForward(tab_self, x)
       IN /\ tab_fwd' = IF exists(r.raised) THEN "raised" ELSE "returned"
          /\ tab_out' = r.out
          /\ tab_error' = r.raised
    /\ UNCHANGED <<tab_pc, tab_args, tab_self>>

\* The inputs of forward explored: one row of up to MaxCols + 1 columns.
CellVals == {0, 1}
TabInputs == {<<row>> : row \in UNION {[1..c -> CellVals] : c \in 1..MaxCols + 1}}

\* The valid categorical positions of input_dim columns: no position twice.
CatIdxs(input_dim) ==
    {s \in SeqUpTo(0..input_dim - 1, input_dim) : Cardinality(Range(s)) = Len(s)}

InitTab ==
    /\ tab_pc = "new"
    /\ tab_args = None
    /\ tab_self = None
    /\ tab_error = None
    /\ tab_fwd = "none"
    /\ tab_x = None
    /\ tab_out = None

IdleTab == InitTab

(***************************************************************************)
(* Stacked plugins: the constructor one plugin returns, passed as net_t to *)
(* another.  Tensors are followed by their shapes and by the sources their *)
(* rows came from; the base network records the keywords it is called     *)
(* with.  A forward call yields the trace of its events: a layer is        *)
(* entered, evaluates its sub-blocks, calls its net, raises or returns.    *)
(***************************************************************************)

Plugins == {"CFG", "Time", "Text", "Tab"}

\* One plugin, or two distinct plugins, outermost first.
Stacks == {<<p>> : p \in Plugins} \cup {r \in Plugins \X Plugins : r[1] # r[2]}

StackBatch == 2
StackFeatures == 3
StackMaxLength == 6
TextLength == 2

ShapedTensor(shape, parts) == [shape |-> shape, parts |-> parts]

Num(v) == [v |-> v]

\* The keywords of a forward call; None stands for a keyword that is not given.
ForwardKeys ==
    {"time", "features", "embedding", "text", "ccData",
     "embedding_scale", "embedding_mask_proba", "extra"}

\* The tabular configurations: no categorical column, or column 0 categorical.
TabConfig(categorical) ==
    [cc_embedding_features |-> StackFeatures,
     cat_dims |-> IF categorical THEN <<5>> ELSE <<>>,
     cat_idxs |-> IF categorical THEN <<0>> ELSE <<>>,
     cat_emb_dims |-> IF categorical THEN <<3>> ELSE <<>>,
     group_matrix |-> <<[c \in 1..StackFeatures |-> 6]>>]

\* torch broadcasting of shapes: None when they cannot be broadcast together.
MaxOf(S) == CHOOSE m \in S : \A n \in S : n <= m

PadShape(shape, n) ==
    [i \in 1..n |-> IF i <= n - Len(shape) THEN 1 ELSE shape[i - (n - Len(shape))]]

Broadcast(shapes) ==
    LET n == MaxOf({Len(shapes[j]) : j \in DOMAIN shapes})
        sizes(i) == {PadShape(shapes[j], n)[i] : j \in DOMAIN shapes} \ {1}
    IN IF \A i \in 1..n : Cardinality(sizes(i)) <= 1
       THEN [shape |-> [i \in 1..n |-> IF sizes(i) = {} THEN 1 ELSE MaxOf(sizes(i))]]
       ELSE None

\* torch.cat([a, b], dim=1): None when the ranks or the other sizes differ.
cat_dim1(a, b) ==
    IF /\ Len(a.shape) = Len(b.shape)
       /\ Len(a.shape) >= 2
       /\ \A i \in DOMAIN a.shape : i # 2 => a.shape[i] = b.shape[i]
    THEN ShapedTensor([a.shape EXCEPT ![2] = a.shape[2] + b.shape[2]], a.parts \o b.parts)
    ELSE None

\* FixedEmbedding.forward on a shape: None when it raises.
FixedEmbeddingShape(max_length, features, x) ==
    IF Len(x.shape) < 2 THEN None
    ELSE IF x.shape[2] > max_length THEN None
    ELSE ShapedTensor(<<x.shape[1], x.shape[2], features>>, <<"fixed">>)

\* TabularDataEmbeddingGenerator.forward on a shape.
TabForwardShape(self, x) ==
    IF self.skip_embedding THEN x
    ELSE ShapedTensor(<<x.shape[1], self.post_embed_dim>>, x.parts)

\* The argument a plugin's forward requires.
Required(plugin) ==
    CASE plugin = "CFG" -> "embedding"
      [] plugin = "Time" -> "time"
      [] plugin = "Text" -> "text"
      [] plugin = "Tab" -> "ccData"

\* forward's first check: the assertion of CFG and Time, the parameter without
\* a default of Text and Tab.
MissingRequiredUnchecked(plugin, kw) == FALSE
MissingRequired(plugin, kw) == ~exists(kw[Required(plugin)])

Enter(k, kw) == [layer |-> k, ev |-> "enter", kw |-> kw]
Ev(k, ev) == [layer |-> k, ev |-> ev]
Sub(k, block) == [layer |-> k, ev |-> "sub", block |-> block]

\* Layer k raises after the events pre.
Raised(k, kw, pre, error) ==
    [ok |-> FALSE, error |-> [error |-> error, layer |-> k], calls |-> <<>>,
     trace |-> <<Enter(k, kw)>> \o pre \o <<Ev(k, "raise")>>]

\* Layer k calls its net once after the events pre; r is what the net did.
Delegated(k, kw, pre, r) ==
    [ok |-> r.ok, error |-> r.error, calls |-> r.calls,
     trace |-> <<Enter(k, kw)>> \o pre \o <<Ev(k, "net")>> \o r.trace
                 \o (IF r.ok THEN <<Ev(k, "return")>> ELSE <<>>)]

RECURSIVE StackForward(_, _)

\* ClassifierFreeGuidancePlugin.Net.forward as layer k.
CFG_layer(k, kw) ==
    LET embedding == kw.embedding
        embedding_scale == IF exists(kw.embedding_scale) THEN kw.embedding_scale.v ELSE 1
        embedding_mask_proba ==
            IF exists(kw.embedding_mask_proba) THEN kw.embedding_mask_proba.v ELSE 0
    IN IF MissingRequired("CFG", kw) THEN Raised(k, kw, <<>>, "AssertionError")
       ELSE IF ~exists(embedding) THEN Raised(k, kw, <<>>, "AttributeError")
       ELSE
        LET embedding_mask ==
                FixedEmbeddingShape(StackMaxLength, stack_base_kw.embedding_features.v,
                                    embedding)
            pre == <<Sub(k, "fixed_embedding")>>
        IN IF ~exists(embedding_mask) THEN Raised(k, kw, pre, "AssertionError")
           ELSE
            LET b == embedding.shape[1]
                where_shape == Broadcast(<<<<b, 1, 1>>, embedding_mask.shape, embedding.shape>>)
            IN IF embedding_mask_proba > 0 /\ ~exists(where_shape)
               THEN Raised(k, kw, pre, "RuntimeError")
               ELSE
                LET masked == IF embedding_mask_proba > 0
                              THEN ShapedTensor(where_shape.shape, embedding.parts \o <<"masked">>)
                              ELSE embedding
                    down == [kw EXCEPT !.embedding = masked, !.embedding_scale = None,
                                       !.embedding_mask_proba = None]
                    out == StackForward(k + 1, down)
                    out_masked == StackForward(k + 1, [down EXCEPT !.embedding = embedding_mask])
                IN IF embedding_scale # 1 /\ out.ok
                   THEN [ok |-> out_masked.ok, error |-> out_masked.error,
                         calls |-> out.calls \o out_masked.calls,
                         trace |-> <<Enter(k, kw)>> \o pre \o <<Ev(k, "net")>> \o out.trace
                                     \o <<Ev(k, "net")>> \o out_masked.trace
                                     \o (IF out_masked.ok THEN <<Ev(k, "return")>> ELSE <<>>)]
                   ELSE Delegated(k, kw, pre, out)

\* TimeConditioningPlugin.Net.forward as layer k.
Time_layer(k, kw) ==
    IF MissingRequired("Time", kw) THEN Raised(k, kw, <<>>, "AssertionError")
    ELSE IF ~exists(kw.time) THEN Raised(k, kw, <<Sub(k, "embedder")>>, "TypeError")
    ELSE
     LET pre == <<Sub(k, "embedder"), Sub(k, "mlp")>>
         embedded == kw.time.shape \o <<stack_base_kw.modulation_features.v>>
         time_features ==
            ShapedTensor(IF Len(embedded) = 3 THEN <<embedded[1], embedded[3]>> ELSE embedded,
                         <<"time">>)
         sum == IF exists(kw.features)
                THEN Broadcast(<<kw.features.shape, time_features.shape>>)
                ELSE None
     IN IF exists(kw.features) /\ ~exists(sum) THEN Raised(k, kw, pre, "RuntimeError")
        ELSE LET features == IF exists(kw.features)
                             THEN ShapedTensor(sum.shape, kw.features.parts \o <<"time">>)
                             ELSE time_features
             IN Delegated(k, kw, pre,
                          StackForward(k + 1, [kw EXCEPT !.time = None, !.features = features]))

\* TextConditioningPlugin.Net.forward as layer k.
Text_layer(k, kw) ==
    IF MissingRequired("Text", kw) THEN Raised(k, kw, <<>>, "TypeError")
    ELSE IF ~exists(kw.text) THEN Raised(k, kw, <<Sub(k, "embedder")>>, "TypeError")
    ELSE
     LET pre == <<Sub(k, "embedder")>>
         embedded == ShapedTensor(<<kw.text.strings, TextLength, StackFeatures>>, <<"text">>)
         text_embedding == IF exists(kw.embedding) THEN cat_dim1(embedded, kw.embedding)
                           ELSE embedded
     IN IF ~exists(text_embedding) THEN Raised(k, kw, pre, "RuntimeError")
        ELSE Delegated(k, kw, pre,
                       StackForward(k + 1, [kw EXCEPT !.text = None,
                                                      !.embedding = text_embedding]))

\* TabularDataConditioningPlugin.Net.forward as layer k.
Tab_layer(k, kw) ==
    IF MissingRequired("Tab", kw) THEN Raised(k, kw, <<>>, "TypeError")
    ELSE IF ~exists(kw.ccData) /\ ~stack_embedder.skip_embedding
         THEN Raised(k, kw, <<Sub(k, "embedder")>>, "TypeError")
    ELSE
     LET pre == <<Sub(k, "embedder")>>
         embedded == IF exists(kw.ccData) THEN TabForwardShape(stack_embedder, kw.ccData)
                     ELSE None
         cc_embedding == IF exists(kw.embedding)
                         THEN IF exists(embedded) THEN cat_dim1(embedded, kw.embedding)
                              ELSE None
                         ELSE embedded
     IN IF exists(kw.embedding) /\ ~exists(cc_embedding)
        THEN Raised(k, kw, pre, IF exists(embedded) THEN "RuntimeError" ELSE "TypeError")
        ELSE Delegated(k, kw, pre,
                       StackForward(k + 1, [kw EXCEPT !.ccData = None,
                                                      !.embedding = cc_embedding]))

\* The forward of layer k of the stack; below the innermost plugin, the base network.
StackForward(k, kw) ==
    IF k > Len(stack_layers)
    THEN [ok |-> TRUE, error |-> None, calls |-> <<kw>>, trace |-> <<>>]
    ELSE CASE stack_layers[k] = "CFG" -> CFG_layer(k, kw)
           [] stack_layers[k] = "Time" -> Time_layer(k, kw)
           [] stack_layers[k] = "Text" -> Text_layer(k, kw)
           [] stack_layers[k] = "Tab" -> Tab_layer(k, kw)

\* Net(**kw) of layer k: the keywords the base constructor receives, or the error.
RECURSIVE StackBuild(_, _)
StackBuild(k, kw) ==
    IF k > Len(stack_layers) THEN [raised |-> None, base_kw |-> kw]
    ELSE LET plugin == stack_layers[k]
         IN IF plugin = "CFG"
            THEN IF ~exists(kw.embedding_features)
                 THEN [raised |-> [error |-> "TypeError", layer |-> k], base_kw |-> None]
                 ELSE StackBuild(k + 1, kw)
            ELSE IF plugin = "Time"
            THEN IF ~exists(kw.modulation_features)
                 THEN [raised |-> [error |-> "AssertionError", layer |-> k], base_kw |-> None]
                 ELSE StackBuild(k + 1, kw)
            ELSE LET features == Num(StackFeatures)
                     embedding_features == IF exists(kw.embedding_features)
                                           THEN kw.embedding_features ELSE features
                 IN IF embedding_features # features
                    THEN [raised |-> [error |-> "AssertionError", layer |-> k],
                          base_kw |-> None]
                    ELSE StackBuild(k + 1,
                                    [kw EXCEPT !.embedding_features = embedding_features])

\* The plugin functions applied innermost first: layers[2](base), then layers[1](that).
Plugin_apply(layers, categorical) ==
    /\ stack_pc = "start"
    /\ stack_layers' = layers
    /\ LET c == TabConfig(categorical)
           r == IF "Tab" \in Range(layers)
                THEN TabInit(c.cc_embedding_features, c.cat_dims, c.cat_idxs,
                             c.cat_emb_dims, c.group_matrix)
                ELSE [raised |-> None, self |-> None]
       IN /\ stack_embedder' = r.self
          /\ stack_error' = r.raised
          /\ stack_pc' = IF exists(r.raised) THEN "plugin_raised" ELSE "wrapped"
    /\ UNCHANGED <<stack_build_kw, stack_base_kw, stack_call, stack_result, stack_out>>

\* The outermost constructor called with the build-time keywords kw.
Net_build(kw) ==
    /\ stack_pc = "wrapped"
    /\ stack_build_kw' = kw
    /\ LET r == StackBuild(1, kw)
       IN /\ stack_base_kw' = r.base_kw
          /\ stack_error' = r.raised
          /\ stack_pc' = IF exists(r.raised) THEN "build_raised" ELSE "built"
    /\ UNCHANGED <<stack_layers, stack_embedder, stack_call, stack_result, stack_out>>

\* The stacked network called with the keywords kw.
Net_forward(kw) ==
    /\ stack_pc = "built"
    /\ stack_call' = kw
    /\ LET r == StackForward(1, kw)
       IN /\ stack_result' = [ok |-> r.ok, calls |-> r.calls, trace |-> r.trace]
          /\ stack_error' = r.error
          /\ stack_out' = IF r.ok THEN [returned |-> TRUE] ELSE None
          /\ stack_pc' = IF r.ok THEN "returned" ELSE "forward_raised"
    /\ UNCHANGED <<stack_layers, stack_embedder, stack_build_kw, stack_base_kw>>

\* The build-time keywords explored.
BuildCalls ==
    [embedding_features : {None, Num(StackFeatures), Num(StackFeatures + 1)},
     modulation_features : {None, Num(ModulationFeatures)},
     channels : {Num(8)}]

\* The forward keywords explored for a network built with base_kw.
ForwardCalls(base_kw) ==
    LET B == StackBatch
        F == IF exists(base_kw.embedding_features) THEN base_kw.embedding_features.v
             ELSE StackFeatures
    IN [time : {None, ShapedTensor(<<B>>, <<"user">>)},
        features : {None, ShapedTensor(<<B, ModulationFeatures>>, <<"user">>)},
        embedding : {None, ShapedTensor(<<B, 2, F>>, <<"user">>)},
        text : {None, [strings |-> B]},
        ccData : {None, ShapedTensor(<<B, StackFeatures>>, <<"ccData">>),
                  ShapedTensor(<<B, 1, StackFeatures>>, <<"ccData">>)},
        embedding_scale : {None, Num(1), Num(2)},
        embedding_mask_proba : {None, Num(1)},
        extra : {None, Num(9)}]

InitStack ==
    /\ stack_pc = "start"
    /\ stack_layers = <<>>
    /\ stack_embedder = None
    /\ stack_build_kw = None
    /\ stack_base_kw = None
    /\ stack_call = None
    /\ stack_result = None
    /\ stack_error = None
    /\ stack_out = None

IdleStack == InitStack

(***************************************************************************)
(* Conv, ConvTranspose, Downsample, Upsample.                              *)
(*                                                                         *)
(* The module built is followed by its class and by its kernel_size,       *)
(* stride and padding; applying it maps the length of each spatial axis as *)
(* torch's convolutions do (dilation 1, no output padding).                *)
(***************************************************************************)

\* Largest factor, width and input length explored.
MaxFactor == 3
MaxWidth == 3
MaxLen == 6

\* The ranks explored: the three supported ones and integers on either side.
Dims == (0 - 4)..5

\* list[i] of Python: positions from 0, negative positions from the end,
\* None (IndexError) outside.
PyListGet(list, i) ==
    IF i \in 0..Len(list) - 1 THEN [item |-> list[i + 1]]
    ELSE IF i \in (0 - Len(list))..(0 - 1) THEN [item |-> list[Len(list) + i + 1]]
    ELSE None

\* The module a class of torch builds from the keywords kw, or IndexError.
Construct(cls, transposed, kw) ==
    IF ~exists(cls) THEN [raised |-> [error |-> "IndexError"], module |-> None]
    ELSE [raised |-> None,
          module |-> [cls |-> cls.item, transposed |-> transposed,
                      kernel_size |-> kw.kernel_size, stride |-> kw.stride,
                      padding |-> kw.padding]]

\* Conv(dim, **kwargs)
Conv(dim, kw) ==
    Construct(PyListGet(<<"Conv1d", "Conv2d", "Conv3d">>, dim - 1), FALSE, kw)

\* ConvTranspose(dim, **kwargs)
ConvTranspose(dim, kw) ==
    Construct(PyListGet(<<"ConvTranspose1d", "ConvTranspose2d", "ConvTranspose3d">>, dim - 1),
              TRUE, kw)

\* width = width if factor > 1 else 1
EffectiveWidth(factor, width) == IF factor > 1 THEN width ELSE 1

\* The keywords Downsample and Upsample compute.
SampleKwargs(factor, width) ==
    LET w == EffectiveWidth(factor, width)
    IN [kernel_size |-> factor * w,
        stride |-> factor,
        padding |-> (factor * w - factor) \div 2]

\* The length a module maps an axis of length L to; None when torch rejects it.
OutLength(module, L) ==
    IF module.transposed
    THEN LET n == (L - 1) * module.stride - 2 * module.padding + module.kernel_size
         IN IF n < 1 THEN None ELSE Num(n)
    ELSE IF L + 2 * module.padding < module.kernel_size THEN None
         ELSE Num((L + 2 * module.padding - module.kernel_size) \div module.stride + 1)

\* One of the four constructors has run: r is what it built or raised.
Built(op, dim, factor, width, r) ==
    /\ conv_pc = "idle"
    /\ conv_call' = [op |-> op, dim |-> dim, factor |-> factor, width |-> width]
    /\ conv_module' = r.module
    /\ conv_error' = r.raised
    /\ conv_pc' = IF exists(r.raised) THEN "raised" ELSE "built"
    /\ UNCHANGED <<conv_in, conv_out>>

\* Conv(dim, kernel_size=.., stride=.., padding=..) called directly
Conv_call(dim, kw) == Built("Conv", dim, None, None, Conv(dim, kw))

\* ConvTranspose(dim, kernel_size=.., stride=.., padding=..) called directly
ConvTranspose_call(dim, kw) == Built("ConvTranspose", dim, None, None, ConvTranspose(dim, kw))

\* Downsample(dim, factor, width)
Downsample(dim, factor, width) ==
    Built("Downsample", dim, Num(factor), Num(width), Conv(dim, SampleKwargs(factor, width)))

\* Upsample(dim, factor, width)
Upsample(dim, factor, width) ==
    Built("Upsample", dim, Num(factor), Num(width),
          ConvTranspose(dim, SampleKwargs(factor, width)))

\* The built module applied to an input whose spatial axes have length L.
Conv_forward(L) ==
    /\ conv_pc = "built"
    /\ conv_in' = Num(L)
    /\ LET n == OutLength(conv_module, L)
       IN /\ conv_out' = n
          /\ conv_error' = IF exists(n) THEN None ELSE [error |-> "RuntimeError"]
          /\ conv_pc' = IF exists(n) THEN "returned" ELSE "raised"
    /\ UNCHANGED <<conv_call, conv_module>>

\* The keywords explored for the direct calls.
ConvArgs == {[kernel_size |-> 3, stride |-> 1, padding |-> 1]}

InitConv ==
    /\ conv_pc = "idle"
    /\ conv_call = None
    /\ conv_module = None
    /\ conv_error = None
    /\ conv_in = None
    /\ conv_out = None

IdleConv == InitConv

(***************************************************************************)
(* Select(args_fn)(block_t): a block whose forward hands block_t's         *)
(* instance the positional arguments args_fn selects.  The wrapped block   *)
(* records how it was constructed and called, and returns a value that     *)
(* tells which call produced it.                                           *)
(***************************************************************************)

\* Most positional arguments of a forward call explored.
MaxSelArgs == 2

SelTuples == SeqUpTo(ArgVals, MaxSelArgs)

\* The functions given as args_fn: each maps the positional arguments to a tuple.
ArgsFns == {"same", "reversed", "first", "twice", "nothing"}

Reversed(a) == [i \in 1..Len(a) |-> a[Len(a) + 1 - i]]

\* args_fn(*args)
args_fn(fn, a) ==
    CASE fn = "same" -> a
      [] fn = "reversed" -> Reversed(a)
      [] fn = "first" -> IF a = <<>> THEN <<>> ELSE <<a[1]>>
      [] fn = "twice" -> a \o a
      [] fn = "nothing" -> <<>>

\* What the wrapped block returns for a call.
BlockResult(a, ka) == [returned_for |-> [args |-> a, kwargs |-> ka]]

\* The positional arguments forward passes on: *args_fn(*args)
SelectArgsUnselected(fn, a) == a
SelectArgs(fn, a) == args_fn(fn, a)

\* Select(args_fn)(block_t)(*args, **kwargs): Select.__init__
Select_init(fn, a, ka) ==
    /\ sel_pc = "idle"
    /\ sel_fn' = fn
    /\ sel_init' = [args |-> a, kwargs |-> ka]
    /\ sel_block' = [args |-> a, kwargs |-> ka]
    /\ sel_pc' = "built"
    /\ UNCHANGED <<sel_fwd, sel_calls, sel_out>>

\* Select.forward(*args, **kwargs)
Select_forward(a, ka) ==
    /\ sel_pc = "built"
    /\ sel_fwd' = [args |-> a, kwargs |-> ka]
    /\ LET passed == SelectArgs(sel_fn, a)
       IN /\ sel_calls' = Append(sel_calls, [args |-> passed, kwargs |-> ka])
          /\ sel_out' = BlockResult(passed, ka)
    /\ sel_pc' = "returned"
    /\ UNCHANGED <<sel_fn, sel_init, sel_block>>

InitSel ==
    /\ sel_pc = "idle"
    /\ sel_fn = "same"
    /\ sel_init = None
    /\ sel_block = None
    /\ sel_fwd = None
    /\ sel_calls = <<>>
    /\ sel_out = None

IdleSel == InitSel

(***************************************************************************)
(* Specifications.                                                         *)
(***************************************************************************)

Idle(c) ==
    /\ IF c # "T" THEN IdleT ELSE TRUE
    /\ IF c # "Seq" THEN IdleSeq ELSE TRUE
    /\ IF c # "Rep" THEN IdleRep ELSE TRUE
    /\ IF c # "CFG" THEN IdleCFG ELSE TRUE
    /\ IF c # "TC" THEN IdleTC ELSE TRUE
    /\ IF c # "Tab" THEN IdleTab ELSE TRUE
    /\ IF c # "Stack" THEN IdleStack ELSE TRUE
    /\ IF c # "Conv" THEN IdleConv ELSE TRUE
    /\ IF c # "Sel" THEN IdleSel ELSE TRUE

Frame(c) ==
    /\ IF c # "T" THEN UNCHANGED varsT ELSE TRUE
    /\ IF c # "Seq" THEN UNCHANGED varsSeq ELSE TRUE
    /\ IF c # "Rep" THEN UNCHANGED varsRep ELSE TRUE
    /\ IF c # "CFG" THEN UNCHANGED varsCFG ELSE TRUE
    /\ IF c # "TC" THEN UNCHANGED varsTC ELSE TRUE
    /\ IF c # "Tab" THEN UNCHANGED varsTab ELSE TRUE
    /\ IF c # "Stack" THEN UNCHANGED varsStack ELSE TRUE
    /\ IF c # "Conv" THEN UNCHANGED varsConv ELSE TRUE
    /\ IF c # "Sel" THEN UNCHANGED varsSel ELSE TRUE

StartT == InitT /\ Idle("T")

NextT ==
    \/ \E a \in ArgTuples, ka \in ArgDicts : T_call(a, ka) /\ Frame("T")
    \/ \E b \in ArgTuples, kb \in ArgDicts : Inner_call(b, kb) /\ Frame("T")

SpecT == StartT /\ [][NextT]_vars

StartSeq == InitSeq /\ Idle("Seq")

NextSeq ==
    \/ \E x \in 0..MaxX, args \in SeqUpTo(0..1, MaxAux) : forward_call(x, args) /\ Frame("Seq")
    \/ Sequential_forward_step /\ Frame("Seq")
    \/ Sequential_forward_return /\ Frame("Seq")
    \/ Skip_forward_return /\ Frame("Seq")

SpecSeq == StartSeq /\ [][NextSeq]_vars

StartRep == InitRep /\ Idle("Rep")

NextRep ==
    \/ \E times \in 0..MaxTimes : Repeat(times) /\ Frame("Rep")
    \/ Ts_instantiate /\ Frame("Rep")
    \/ \E id \in DOMAIN rep_heap, v \in ParamVals : set_param(id, v) /\ Frame("Rep")

SpecRep == StartRep /\ [][NextRep]_vars

StartCFG == InitCFG /\ Idle("CFG")

NextCFG ==
    \/ /\ cfg_pc = "idle"
       /\ \E x \in XVals, embedding \in Embeddings \cup {None}, embedding_scale \in Scales,
             proba \in 0..ProbaDen, kwargs \in CfgKwargs :
             CFG_forward(x, embedding, embedding_scale, proba, kwargs) /\ Frame("CFG")

SpecCFG == StartCFG /\ [][NextCFG]_vars

StartTC == InitTC /\ Idle("TC")

NextTC ==
    \/ /\ tc_pc = "idle"
       /\ \E x \in XVals, b \in 1..MaxBatch, kwargs \in TcKwargs :
             \E time \in Times(b) \cup {None}, features \in Features(b) \cup {None} :
                Time_forward(x, time, features, kwargs) /\ Frame("TC")

SpecTC == StartTC /\ [][NextTC]_vars

StartTab == InitTab /\ Idle("Tab")

NextTab ==
    \/ /\ tab_pc = "new"
       /\ \E input_dim \in 1..MaxCols, n_groups \in GroupCounts :
             \E cat_idxs \in CatIdxs(input_dim),
                group_matrix \in [1..n_groups -> [1..input_dim -> GroupWeights]] :
                \E cat_dims \in [1..Len(cat_idxs) -> CatCards],
                   cat_emb_dims \in [1..Len(cat_idxs) -> EmbWidths] :
                   TabularDataEmbeddingGenerator_init(input_dim, cat_dims, cat_idxs,
                                                      cat_emb_dims, group_matrix)
                       /\ Frame("Tab")
    \/ /\ tab_pc = "built"
       /\ tab_fwd = "none"
       /\ \E x \in TabInputs : TabularDataEmbeddingGenerator_forward(x) /\ Frame("Tab")

SpecTab == StartTab /\ [][NextTab]_vars

StartStack == InitStack /\ Idle("Stack")

NextStack ==
    \/ /\ stack_pc = "start"
       /\ \E layers \in Stacks, categorical \in BOOLEAN :
             Plugin_apply(layers, categorical) /\ Frame("Stack")
    \/ /\ stack_pc = "wrapped"
       /\ \E kw \in BuildCalls : Net_build(kw) /\ Frame("Stack")
    \/ /\ stack_pc = "built"
       /\ \E kw \in ForwardCalls(stack_base_kw) : Net_forward(kw) /\ Frame("Stack")

SpecStack == StartStack /\ [][NextStack]_vars

StartConv == InitConv /\ Idle("Conv")

NextConv ==
    \/ \E dim \in Dims, kw \in ConvArgs : Conv_call(dim, kw) /\ Frame("Conv")
    \/ \E dim \in Dims, kw \in ConvArgs : ConvTranspose_call(dim, kw) /\ Frame("Conv")
    \/ \E dim \in Dims, factor \in 1..MaxFactor, width \in 1..MaxWidth :
            Downsample(dim, factor, width) /\ Frame("Conv")
    \/ \E dim \in Dims, factor \in 1..MaxFactor, width \in 1..MaxWidth :
            Upsample(dim, factor, width) /\ Frame("Conv")
    \/ \E L \in 1..MaxLen : Conv_forward(L) /\ Frame("Conv")

SpecConv == StartConv /\ [][NextConv]_vars

StartSel == InitSel /\ Idle("Sel")

NextSel ==
    \/ /\ sel_pc = "idle"
       /\ \E fn \in ArgsFns, a \in ArgTuples, ka \in ArgDicts :
             Select_init(fn, a, ka) /\ Frame("Sel")
    \/ /\ sel_pc = "built"
       /\ \E a \in SelTuples, ka \in ArgDicts : Select_forward(a, ka) /\ Frame("Sel")

SpecSel == StartSel /\ [][NextSel]_vars

(***************************************************************************)
(* C1.  Every instantiation of a template calls the constructor exactly    *)
(* once.  In override mode the call has the captured positional arguments  *)
(* followed by the extra ones, and the captured keywords merged with the   *)
(* extra ones, the extra ones winning on a collision.  In non-override     *)
(* mode the extra positional arguments come first and the captured         *)
(* keywords win.  The instantiation changes nothing of the template.       *)
(***************************************************************************)
C1_Expected(first, second, win, lose) ==
    /\ f_last.args = first \o second
    /\ DOMAIN f_last.kwargs = DOMAIN win \cup DOMAIN lose
    /\ \A k \in DOMAIN win : f_last.kwargs[k] = win[k]
    /\ \A k \in DOMAIN lose \ DOMAIN win : f_last.kwargs[k] = lose[k]

C1_CallShape ==
    /\ f_count = n_inst
    /\ f_last.made = inst_req.made
    /\ inst_req.made =>
        IF T_override
        THEN C1_Expected(inner.a, inst_req.b, inst_req.kb, inner.ka)
        ELSE C1_Expected(inst_req.b, inner.a, inner.ka, inst_req.kb)

C1_TemplateFrame ==
    (n_inst' # n_inst) =>
        /\ inner' = inner
        /\ T_override' = T_override
        /\ f_count' = f_count + 1

C1_TemplateCall == [](C1_CallShape) /\ [][C1_TemplateFrame]_vars

\* An override-mode instantiation whose keywords collide with different
\* values and whose positional argument order is observable.
C1_Witness ==
    /\ inst_req.made
    /\ inner.a # <<>> /\ inst_req.b # <<>>
    /\ inner.a \o inst_req.b # inst_req.b \o inner.a
    /\ \E k \in DOMAIN inner.ka \cap DOMAIN inst_req.kb :
        inner.ka[k] # inst_req.kb[k]
    /\ DOMAIN inner.ka # DOMAIN inst_req.kb

(***************************************************************************)
(* C2.  Sequential.forward(x, *aux) calls its blocks in construction       *)
(* order: the first with x, each later one with the result of the one      *)
(* before it, every one with the auxiliary tuple given to forward; it      *)
(* returns the last block's result, and x when it has no blocks.           *)
(***************************************************************************)
C2_Result(i) == BlockApply(seq_blocks[i], seq_log[i].x, seq_log[i].args)

C2_SequentialForward ==
    /\ Len(seq_log) <= Len(seq_blocks)
    /\ \A i \in 1..Len(seq_log) :
        /\ seq_log[i].args = fwd_args
        /\ seq_log[i].x = IF i = 1 THEN fwd_x ELSE C2_Result(i - 1)
    /\ seq_pc \in {"merge", "done"} =>
        /\ Len(seq_log) = Len(seq_blocks)
        /\ chain_out = IF seq_blocks = <<>> THEN fwd_x ELSE C2_Result(Len(seq_blocks))
    /\ (seq_pc = "done" /\ seq_class = "Sequential") => fwd_out = chain_out

\* A finished call of a three-block chain with two auxiliary arguments, in
\* which the order of the blocks and the auxiliary arguments show in the result.
C2_Witness ==
    /\ seq_pc = "done" /\ seq_class = "Sequential"
    /\ seq_blocks = <<"inc", "addaux", "double">>
    /\ fwd_args = <<0, 1>>
    /\ fwd_out = 2 * (fwd_x + 1 + 4)

(***************************************************************************)
(* C3.  Skip(m)(blocks...).forward(x, *aux) returns m(x, chain(x, *aux)):  *)
(* the first argument of m is the x forward was called with and the second *)
(* the Sequential application of the blocks; with m = add and a chain      *)
(* whose result is zero, forward returns x.                                *)
(***************************************************************************)
RECURSIVE C3_Chain(_, _, _)
C3_Chain(blocks, x, aux) ==
    IF blocks = <<>> THEN x
    ELSE C3_Chain(Tail(blocks), BlockApply(Head(blocks), x, aux), aux)

C3_SkipForward ==
    (seq_pc = "done" /\ seq_class \in MergeFns) =>
        /\ fwd_out = MergeFn(seq_class, fwd_x, C3_Chain(seq_blocks, fwd_x, fwd_args))
        /\ (seq_class = "add" /\ C3_Chain(seq_blocks, fwd_x, fwd_args) = 0) => fwd_out = fwd_x

\* A finished Skip call whose chain changes the signal and whose merge
\* function does not commute; and the identity case.
C3_Witness ==
    /\ seq_pc = "done" /\ seq_class = "sub"
    /\ seq_blocks = <<"inc", "double">>
    /\ fwd_x = 2
    /\ fwd_out = 2 - 6

C3_WitnessIdentity ==
    /\ seq_pc = "done" /\ seq_class = "add"
    /\ Len(seq_blocks) > 1 /\ seq_blocks[Len(seq_blocks)] = "zero"
    /\ fwd_x > 0 /\ fwd_out = fwd_x

(***************************************************************************)
(* C4.  Repeat of a template: every chain built has `times` blocks that    *)
(* are pairwise distinct objects, two chains share no object, and a        *)
(* parameter change at one position leaves every other position as it      *)
(* was.  Repeat of a built block: the chain has `times` positions that     *)
(* all hold that one object, and a parameter change shows at every         *)
(* position.                                                               *)
(***************************************************************************)
C4_Positions == {<<c, i>> : c \in DOMAIN rep_chains, i \in 1..MaxTimes}

C4_Valid(p) == p[2] <= Len(rep_chains[p[1]])

C4_At(p) == rep_chains[p[1]][p[2]]

C4_Instances ==
    /\ \A c \in DOMAIN rep_chains : Len(rep_chains[c]) = rep_times
    /\ \A p \in C4_Positions : C4_Valid(p) => C4_At(p) \in DOMAIN rep_heap
    /\ \A p, q \in C4_Positions :
        (C4_Valid(p) /\ C4_Valid(q)) =>
            IF rep_m.isinstance
            THEN C4_At(p) = rep_m.id /\ C4_At(q) = rep_m.id
            ELSE (p # q) => C4_At(p) # C4_At(q)
    /\ (rep_result # None /\ rep_m.isinstance) => Len(rep_chains) = 1

C4_ParamChange ==
    \A p, q \in C4_Positions :
        (/\ rep_chains' = rep_chains
         /\ C4_Valid(p) /\ C4_Valid(q)
         /\ rep_heap'[C4_At(p)] # rep_heap[C4_At(p)]) =>
            IF rep_m.isinstance
            THEN rep_heap'[C4_At(q)] = rep_heap'[C4_At(p)]
            ELSE (p # q) => rep_heap'[C4_At(q)] = rep_heap[C4_At(q)]

C4_Repeat == [](C4_Instances) /\ [][C4_ParamChange]_vars

\* Two chains built from one repeated template, a parameter of one block changed.
C4_Witness ==
    /\ ~rep_m.isinstance
    /\ rep_times = MaxTimes
    /\ Len(rep_chains) = 2
    /\ \E id \in DOMAIN rep_heap : rep_heap[id] # InitialParam

\* A chain of a repeated built block, whose parameter was changed.
C4_WitnessShared ==
    /\ rep_m.isinstance
    /\ rep_times = MaxTimes
    /\ Len(rep_chains) = 1
    /\ rep_heap[rep_m.id] # InitialParam

(***************************************************************************)
(* C5.  A forward call of the guidance plugin that is given an embedding   *)
(* and returns: with embedding_scale = 1 the base network is called once,  *)
(* with the possibly masked embedding, and its result is returned as it    *)
(* is; with another embedding_scale it is called twice with the same x     *)
(* and keyword arguments, first with the possibly masked embedding (out),  *)
(* then with the fixed embedding (out_u), and the call returns             *)
(* out_u + (out - out_u) * embedding_scale.                                *)
(***************************************************************************)
C5_Fixed == Tensor([i \in 1..Len(cfg_call.embedding.data) |->
                       [p \in 1..Len(cfg_call.embedding.data[1]) |-> 0 - p]])

C5_PossiblyMasked(e) ==
    /\ Len(e.data) = Len(cfg_call.embedding.data)
    /\ \A i \in 1..Len(e.data) : e.data[i] \in {cfg_call.embedding.data[i], C5_Fixed.data[i]}
    /\ cfg_call.embedding_mask_proba = 0 => e = cfg_call.embedding

C5_GuidanceEvaluations ==
    cfg_pc = "returned" =>
        /\ exists(cfg_call.embedding)
        /\ \A k \in 1..Len(cfg_net) :
            cfg_net[k].x = cfg_call.x /\ cfg_net[k].kwargs = cfg_call.kwargs
        /\ C5_PossiblyMasked(cfg_net[1].embedding)
        /\ IF cfg_call.embedding_scale = 1
           THEN /\ Len(cfg_net) = 1
                /\ cfg_out = NetOut(cfg_net[1])
           ELSE /\ Len(cfg_net) = 2
                /\ cfg_net[2].embedding = C5_Fixed
                /\ \A i \in 1..Len(cfg_out) :
                    cfg_out[i] = NetOut(cfg_net[2])[i]
                        + (NetOut(cfg_net[1])[i] - NetOut(cfg_net[2])[i])
                          * cfg_call.embedding_scale

\* A guided call (scale 2) whose two evaluations differ, so that the result
\* is neither of them.
C5_Witness ==
    /\ cfg_pc = "returned"
    /\ cfg_call.embedding_scale = 2
    /\ Len(cfg_net) = 2
    /\ NetOut(cfg_net[1]) # NetOut(cfg_net[2])
    /\ cfg_out # NetOut(cfg_net[1]) /\ cfg_out # NetOut(cfg_net[2])

\* An unguided call (scale 1) with some items masked.
C5_WitnessSingle ==
    /\ cfg_pc = "returned"
    /\ cfg_call.embedding_scale = 1
    /\ cfg_net[1].embedding # cfg_call.embedding

(***************************************************************************)
(* C6.  The embedding of the conditional evaluation is, for each batch     *)
(* item, the supplied one when embedding_mask_proba is 0, the fixed one    *)
(* when it is 1, and for a probability in between the supplied or the      *)
(* fixed one of that whole item.                                           *)
(***************************************************************************)
C6_MaskedEmbedding ==
    cfg_pc = "returned" =>
        LET used == cfg_net[1].embedding.data
            given == cfg_call.embedding.data
            proba == cfg_call.embedding_mask_proba
        IN /\ Len(used) = Len(given)
           /\ \A i \in 1..Len(given) :
                /\ proba = 0 => used[i] = given[i]
                /\ proba = ProbaDen => used[i] = C5_Fixed.data[i]
                /\ used[i] = given[i] \/ used[i] = C5_Fixed.data[i]

\* A probability in between: the first item masked, the second one not.
C6_Witness ==
    /\ cfg_pc = "returned"
    /\ cfg_call.embedding_mask_proba \in 1..ProbaDen - 1
    /\ Len(cfg_call.embedding.data) = 2
    /\ Len(cfg_call.embedding.data[1]) = 2
    /\ cfg_net[1].embedding.data[1] = C5_Fixed.data[1]
    /\ cfg_net[1].embedding.data[2] = cfg_call.embedding.data[2]

\* Probability 1: every item masked.
C6_WitnessAlways ==
    /\ cfg_pc = "returned"
    /\ cfg_call.embedding_mask_proba = ProbaDen
    /\ Len(cfg_call.embedding.data) = 2
    /\ cfg_net[1].embedding = C5_Fixed

(***************************************************************************)
(* C7.  A forward call of the time plugin that is given `time` calls the   *)
(* base network once, with the x and the other keyword arguments it was    *)
(* given and with features = the supplied features + time_features, or     *)
(* time_features alone when none were supplied; time_features has one      *)
(* vector per batch item, the sum over the tokens when time has a token    *)
(* axis.                                                                   *)
(***************************************************************************)
C7_Vector(t) == mlp(NumLayers, gelu(to_embedding(ModulationFeatures, t)))

C7_ItemFeatures(i) ==
    LET time == tc_call.time
    IN IF time.ndim = 1
       THEN C7_Vector(time.values[i])
       ELSE VecSum([j \in DOMAIN time.values[i] |-> C7_Vector(time.values[i][j])],
                   ModulationFeatures)

C7_TimeFeaturesAdded ==
    (tc_pc # "idle" /\ exists(tc_call.time)) =>
        /\ tc_pc = "returned"
        /\ Len(tc_net) = 1
        /\ tc_net[1].x = tc_call.x
        /\ tc_net[1].kwargs = tc_call.kwargs
        /\ tc_net[1].features.ndim = 2
        /\ Len(tc_net[1].features.values) = Len(tc_call.time.values)
        /\ \A i \in DOMAIN tc_call.time.values :
            LET time_features == C7_ItemFeatures(i)
            IN /\ Len(tc_net[1].features.values[i]) = ModulationFeatures
               /\ \A d \in 1..ModulationFeatures :
                    tc_net[1].features.values[i][d] =
                        (IF exists(tc_call.features) THEN tc_call.features.values[i][d] ELSE 0)
                            + time_features[d]

\* Features supplied (not all zero) and a time array with two tokens per item.
C7_Witness ==
    /\ tc_pc = "returned"
    /\ exists(tc_call.features)
    /\ tc_call.time.ndim = 2
    /\ Len(tc_call.time.values) = 2
    /\ Len(tc_call.time.values[1]) = 2
    /\ tc_call.features.values[1][1] = 1
    /\ tc_net[1].features # tc_call.features
    /\ "embedding" \in DOMAIN tc_net[1].kwargs

(***************************************************************************)
(* C9.  Construction of the generator from valid inputs yields an          *)
(* embedding_group_matrix of n_groups rows and post_embed_dim =            *)
(* input_dim + sum(cat_emb_dims) - (number of categorical columns)         *)
(* columns; a continuous column's weight is copied into its one column, a  *)
(* categorical column's weight w is written as w / width into each of its  *)
(* `width` columns, and every row keeps its total weight.                  *)
(***************************************************************************)
\* The width of raw column i (counted from 1; the categorical columns take their
\* widths in column order) and the number of columns written before it.
C9_Width(i) ==
    IF (i - 1) \in Range(tab_args.cat_idxs)
    THEN tab_args.cat_emb_dims[Cardinality({j \in Range(tab_args.cat_idxs) : j <= i - 1})]
    ELSE 1

RECURSIVE C9_Offset(_)
C9_Offset(i) == IF i = 1 THEN 0 ELSE C9_Offset(i - 1) + C9_Width(i - 1)

C9_GroupMatrixRebuilt ==
    tab_pc # "new" =>
        /\ tab_pc = "built"
        /\ tab_self.post_embed_dim =
                tab_args.input_dim + SumSeq(tab_args.cat_emb_dims) - Len(tab_args.cat_idxs)
        /\ DOMAIN tab_self.embedding_group_matrix = DOMAIN tab_args.group_matrix
        /\ \A g \in DOMAIN tab_args.group_matrix :
            LET row == tab_args.group_matrix[g]
                out == tab_self.embedding_group_matrix[g]
            IN /\ Len(out) = tab_self.post_embed_dim
               /\ SumSeq(out) = SumSeq(row)
               /\ \A i \in 1..tab_args.input_dim :
                    \A k \in 1..C9_Width(i) :
                        out[C9_Offset(i) + k] * C9_Width(i) = row[i]

(***************************************************************************)
(* C8.  A stack of two distinct plugins, in either order: the built        *)
(* network's base constructor received every build-time keyword the layers *)
(* need, and a forward call that supplies every stacked plugin's required  *)
(* argument returns, having called the base network once, or twice under   *)
(* guidance with a scale other than 1, with the produced keywords          *)
(* (`embedding`, `features`) set and every keyword no plugin consumes      *)
(* equal to the caller's.                                                  *)
(***************************************************************************)
C8_Touched(plugin) ==
    CASE plugin = "CFG" -> {"embedding", "embedding_scale", "embedding_mask_proba"}
      [] plugin = "Time" -> {"time", "features"}
      [] plugin = "Text" -> {"text", "embedding"}
      [] plugin = "Tab" -> {"ccData", "embedding"}

C8_Prescribed ==
    IF /\ "CFG" \in Range(stack_layers)
       /\ exists(stack_call.embedding_scale)
       /\ stack_call.embedding_scale # Num(1)
    THEN 2 ELSE 1

C8_BuildPassed ==
    /\ stack_base_kw.channels = stack_build_kw.channels
    /\ "Time" \in Range(stack_layers) =>
            /\ exists(stack_base_kw.modulation_features)
            /\ stack_base_kw.modulation_features = stack_build_kw.modulation_features
    /\ Range(stack_layers) \cap {"CFG", "Text", "Tab"} # {} =>
            exists(stack_base_kw.embedding_features)

C8_ForwardReached ==
    /\ stack_result.ok
    /\ Len(stack_result.calls) = C8_Prescribed
    /\ \A c \in DOMAIN stack_result.calls :
        LET call == stack_result.calls[c]
        IN /\ \A key \in ForwardKeys \ UNION {C8_Touched(p) : p \in Range(stack_layers)} :
                call[key] = stack_call[key]
           /\ "Time" \in Range(stack_layers) =>
                exists(call.features) /\ "time" \in Range(call.features.parts)
           /\ Range(stack_layers) \cap {"CFG", "Text", "Tab"} # {} => exists(call.embedding)
    /\ "Text" \in Range(stack_layers) =>
            "text" \in Range(stack_result.calls[1].embedding.parts)
    /\ "Tab" \in Range(stack_layers) =>
            "ccData" \in Range(stack_result.calls[1].embedding.parts)

C8_Stackable ==
    Len(stack_layers) = 2 =>
        /\ stack_pc \in {"built", "returned", "forward_raised"} => C8_BuildPassed
        /\ /\ stack_pc \in {"returned", "forward_raised"}
           /\ \A p \in Range(stack_layers) : exists(stack_call[Required(p)])
           => C8_ForwardReached

(***************************************************************************)
(* C10.  A forward call of a plugin that lacks the plugin's required       *)
(* argument (`embedding`, `time`, `text`, `ccData`) raises at once: the    *)
(* entry into that layer is followed by its raise and by nothing else, no  *)
(* sub-block of the layer and no net of the layer is evaluated, the base   *)
(* network is never called, and the stacked call returns no output.        *)
(***************************************************************************)
C10_Omits(e) ==
    /\ e.ev = "enter"
    /\ ~exists(e.kw[Required(stack_layers[e.layer])])

C10_MissingArgumentFails ==
    stack_pc \in {"returned", "forward_raised"} =>
        LET trace == stack_result.trace
        IN \A p \in DOMAIN trace :
            C10_Omits(trace[p]) =>
                /\ p + 1 = Len(trace)
                /\ trace[p + 1] = Ev(trace[p].layer, "raise")
                /\ \A q \in DOMAIN trace :
                    trace[q].layer = trace[p].layer => trace[q].ev \notin {"sub", "net"}
                /\ stack_result.calls = <<>>
                /\ ~stack_result.ok
                /\ stack_pc = "forward_raised"
                /\ stack_out = None

\* The outer plugin of a stack of two was called without its argument.
C10_Witness ==
    /\ stack_pc = "forward_raised"
    /\ Len(stack_layers) = 2
    /\ C10_Omits(stack_result.trace[1])
    /\ stack_result.trace = <<Enter(1, stack_call), Ev(1, "raise")>>

\* The inner plugin of a stack was reached and lacked its argument.
C10_WitnessInner ==
    /\ stack_pc = "forward_raised"
    /\ \E p \in DOMAIN stack_result.trace :
        stack_result.trace[p].layer = 2 /\ C10_Omits(stack_result.trace[p])

(***************************************************************************)
(* C11.  forward of a constructed generator fails, and returns no output,  *)
(* whenever its input has more or fewer columns than input_dim.            *)
(***************************************************************************)
C11_ColumnMismatchFails ==
    (tab_fwd # "none" /\ Len(tab_x[1]) # tab_args.input_dim) =>
        /\ tab_fwd = "raised"
        /\ tab_out = None

(***************************************************************************)
(* C12.  For every factor >= 1 and width >= 1 the module Downsample or     *)
(* Upsample builds has stride = factor, kernel_size = factor * w and       *)
(* padding = (kernel_size - factor) / 2, with w = width when factor > 1    *)
(* and w = 1 otherwise; the alignment is exact, kernel_size - 2 * padding  *)
(* = factor, so Downsample maps a length divisible by factor to length /   *)
(* factor and Upsample maps a length to length * factor.                   *)
(***************************************************************************)
C12_Expected ==
    IF conv_call.op = "Upsample" THEN conv_in.v * conv_call.factor.v
    ELSE conv_in.v \div conv_call.factor.v

C12_SampleExact ==
    (/\ conv_pc # "idle"
     /\ conv_call.op \in {"Downsample", "Upsample"}
     /\ conv_call.dim \in 1..3
     /\ exists(conv_module)) =>
        LET factor == conv_call.factor.v
            w == IF factor > 1 THEN conv_call.width.v ELSE 1
        IN /\ conv_module.stride = factor
           /\ conv_module.kernel_size = factor * w
           /\ 2 * conv_module.padding = conv_module.kernel_size - factor
           /\ conv_module.kernel_size - 2 * conv_module.padding = factor
           /\ conv_module.transposed = (conv_call.op = "Upsample")
           /\ (/\ exists(conv_in)
               /\ conv_call.op = "Downsample" => conv_in.v % factor = 0)
              => conv_out = Num(C12_Expected)

(***************************************************************************)
(* C15.  Conv and ConvTranspose select the 1-, 2- and 3-dimensional        *)
(* primitive for dim = 1, 2 and 3, and for every other integer dim (0,     *)
(* negative, greater than 3) construction fails instead of selecting one   *)
(* of the three primitives.                                                *)
(***************************************************************************)
C15_Primitive(op, dim) ==
    CASE dim = 1 -> IF op = "Conv" THEN "Conv1d" ELSE "ConvTranspose1d"
      [] dim = 2 -> IF op = "Conv" THEN "Conv2d" ELSE "ConvTranspose2d"
      [] dim = 3 -> IF op = "Conv" THEN "Conv3d" ELSE "ConvTranspose3d"

C15_RankSelects ==
    (conv_pc # "idle" /\ conv_call.op \in {"Conv", "ConvTranspose"}) =>
        IF conv_call.dim \in 1..3
        THEN /\ exists(conv_module)
             /\ conv_module.cls = C15_Primitive(conv_call.op, conv_call.dim)
        ELSE /\ conv_module = None
             /\ conv_pc = "raised"
             /\ exists(conv_error)

(***************************************************************************)
(* C13.  A Select block constructs block_t with exactly the constructor    *)
(* arguments it was given; its forward calls that block exactly once, with *)
(* the positional arguments args_fn returns for the incoming positional    *)
(* arguments and with the incoming keyword arguments unchanged, and        *)
(* returns the block's result unchanged.                                   *)
(***************************************************************************)
C13_SelectDelegates ==
    /\ sel_pc # "idle" => sel_block = sel_init
    /\ sel_pc = "built" => sel_calls = <<>>
    /\ sel_pc = "returned" =>
        /\ Len(sel_calls) = 1
        /\ sel_calls[1].args = args_fn(sel_fn, sel_fwd.args)
        /\ sel_calls[1].kwargs = sel_fwd.kwargs
        /\ sel_out = BlockResult(sel_calls[1].args, sel_calls[1].kwargs)

\* forward was called with two different positional arguments and keywords,
\* and the block received the positional arguments in the other order.
C13_Witness ==
    /\ sel_pc = "returned"
    /\ sel_fn = "reversed"
    /\ sel_fwd.args = <<"u", "v">>
    /\ sel_fwd.kwargs # <<>>
    /\ sel_calls[1].args = <<"v", "u">>
    /\ sel_init.args # <<>>

(***************************************************************************)
(* C14.  A generator constructed from valid inputs, called on an input of  *)
(* input_dim columns, returns post_embed_dim columns in original column    *)
(* order: a continuous column gives its raw value as one column, the       *)
(* categorical column at position cat_idxs[k] gives the cat_emb_dims[k]    *)
(* values looked up in the k-th table (built with cardinality cat_dims[k]),*)
(* whatever the order of cat_idxs; the rebuilt grouping matrix gives each  *)
(* column the same width; and without categorical columns forward returns  *)
(* its input and embedding_group_matrix equals group_matrix.               *)
(***************************************************************************)
\* The k (counted from 1) with cat_idxs[k] the raw column i (counted from 1).
C14_TableOf(i) == CHOOSE k \in DOMAIN tab_args.cat_idxs : tab_args.cat_idxs[k] = i - 1

C14_Categorical(i) == (i - 1) \in Range(tab_args.cat_idxs)

C14_Column(i, v) ==
    IF C14_Categorical(i)
    THEN [j \in 1..tab_args.cat_emb_dims[C14_TableOf(i)] |->
            [table |-> C14_TableOf(i) - 1, index |-> v, dim |-> j]]
    ELSE <<[raw |-> v]>>

RECURSIVE C14_Row(_, _)
C14_Row(row, i) ==
    IF i > tab_args.input_dim THEN <<>> ELSE C14_Column(i, row[i]) \o C14_Row(row, i + 1)

C14_Widths == [i \in 1..tab_args.input_dim |-> Len(C14_Column(i, 0))]

C14_ForwardLayout ==
    tab_pc # "new" =>
        /\ tab_pc = "built"
        /\ tab_self.post_embed_dim = SumSeq(C14_Widths)
        /\ \A k \in DOMAIN tab_args.cat_idxs :
                tab_self.embeddings[k] =
                    [cat_dim |-> tab_args.cat_dims[k], emb_dim |-> tab_args.cat_emb_dims[k]]
        /\ \A g \in DOMAIN tab_args.group_matrix :
                Len(tab_self.embedding_group_matrix[g]) = SumSeq(C14_Widths)
        /\ (tab_fwd # "none" /\ Len(tab_x[1]) = tab_args.input_dim) =>
                /\ tab_fwd = "returned"
                /\ \A r \in DOMAIN tab_out : Len(tab_out[r]) = tab_self.post_embed_dim
                /\ IF tab_args.cat_idxs = <<>>
                   THEN tab_out = tab_x
                   ELSE tab_out = [r \in DOMAIN tab_x |-> C14_Row(tab_x[r], 1)]
        /\ tab_args.cat_idxs = <<>> =>
                tab_self.embedding_group_matrix = tab_args.group_matrix

====
